---- MODULE Spec2Model ----
(***************************************************************************)
(* Model of the MAVLink MCP server (src/src/server/mavlinkmcp.py): the     *)
(* session scope app_lifespan and the tools registered on the server.      *)
(* Every coroutine is cut at its awaits: one action runs the code from one *)
(* suspension point to the next.  The Vehicle Link (mavsdk System) is the  *)
(* environment: it completes or rejects a call, delivers or ends a stream. *)
(***************************************************************************)
EXTENDS Integers, Sequences, FiniteSets, TLC

\* ------------------------------------------------------------- bounds
\* concurrent tool invocations against one session
MaxTasks == 2
\* longest mission-point batch passed to initiate_mission
MaxPoints == 2
\* most items a telemetry.imu() subscription delivers before it must end
MaxImuItems == 4
\* largest n passed to get_imu
MaxN == 3

Tasks == 1..MaxTasks

\* ------------------------------------------------------ values of the code
\* float('nan'), the default of the numeric optional fields: a value no input
\* carries (inputs are whole degrees, metres and seconds far below it)
NaN == 999999
CameraAction_NONE == "CameraAction.NONE"
VehicleAction_NONE == "VehicleAction.NONE"
\* telemetry.set_rate_imu(200.0)
ImuRateHz == 200
\* os.environ.get("MAVLINK_PORT", "14540")
DefaultPort == "14540"

\* os.environ at session open: the address set, or not set at all
Environs == { [MAVLINK_ADDRESS |-> "10.0.0.5"],
              [MAVLINK_ADDRESS |-> "10.0.0.5", MAVLINK_PORT |-> "14550"],
              [MAVLINK_PORT |-> "14550"],
              [k \in {} |-> ""] }

\* os.environ.get(key, default) and dict.get(key, default)
Get(d, key, default) == IF key \in DOMAIN d THEN d[key] ELSE default

\* f"udp://{address}:{port}"
SystemAddress(env) ==
  << "udp://", Get(env, "MAVLINK_ADDRESS", ""), ":", Get(env, "MAVLINK_PORT", DefaultPort) >>

\* what the Vehicle Link raises when it rejects a call
LinkErrors == { [type |-> "LinkError", result |-> "DENIED"],
                [type |-> "LinkError", result |-> "TIMEOUT"] }
CancelledError == [type |-> "CancelledError"]
NoError == [type |-> "none"]

VARIABLES
  lifespan_pc,     \* where app_lifespan stands
  lifespan_exit,   \* how and where app_lifespan left, << "", "" >> while it has not
  state,           \* the last item of drone.core.connection_state()
  health,          \* the last item of drone.telemetry.health()
  saw_connected,   \* the connection loop left by its break
  saw_health_ok,   \* the health loop left by its break
  link,            \* the Vehicle Link: status, address, configured takeoff altitude
  tasks            \* the tool invocations in flight or finished

vars == << lifespan_pc, lifespan_exit, state, health, saw_connected, saw_health_ok,
           link, tasks >>

lifespan_vars == << lifespan_pc, lifespan_exit, state, health, saw_connected,
                    saw_health_ok >>


\* ------------------------------------------------------------- tool tasks
\* a tool invocation that has not been made yet
IdleTask ==
  [ tool |-> "", pc |-> "idle", args |-> [k \in {} |-> 0],
    calls |-> << >>,          \* Vehicle Link calls of this invocation, with their completions
    mission_items |-> << >>,  \* initiate_mission: mission_items
    evaluated |-> 0,          \* initiate_mission: points the validation loop entered
    arrived |-> << >>,        \* get_imu: the items telemetry.imu() delivered to it
    ended |-> FALSE,          \* its telemetry stream has ended
    imu_data |-> << >>,       \* get_imu: imu_data
    count |-> 0,              \* get_imu: count
    reply |-> [type |-> "none"], \* the Vehicle Link's answer to the awaited call
    outcome |-> "",           \* "returned" or "raised" once the invocation ended
    ret |-> "",               \* the value returned
    err |-> NoError ]         \* the error raised

\* the session scope is open: the server runs tools between the yield and the finally
Serving == lifespan_pc = "yielded"

\* ------------------------------------------------------------ app_lifespan
Init ==
  /\ lifespan_pc = "start"
  /\ lifespan_exit = << "", "" >>
  /\ state = [is_connected |-> FALSE]
  /\ health = [is_global_position_ok |-> FALSE, is_home_position_ok |-> FALSE]
  /\ saw_connected = FALSE
  /\ saw_health_ok = FALSE
  /\ link = [status |-> "new", system_address |-> << >>, takeoff_altitude |-> 0]
  /\ tasks = [t \in Tasks |-> IdleTask]

\* lines 29-33: read the environment, make the System, dispatch connect
app_lifespan ==
  /\ lifespan_pc = "start"
  /\ \E env \in Environs :
       link' = [link EXCEPT !.status = "connecting", !.system_address = SystemAddress(env)]
  /\ lifespan_pc' = "await_connect"
  /\ UNCHANGED << lifespan_exit, state, health, saw_connected, saw_health_ok, tasks >>

\* line 33 resumes: connect returned
connect_done ==
  /\ lifespan_pc = "await_connect"
  /\ link' = [link EXCEPT !.status = "connected"]
  /\ lifespan_pc' = "connection_state_wait"
  /\ UNCHANGED << lifespan_exit, state, health, saw_connected, saw_health_ok, tasks >>

\* line 36: the connection-state stream delivers its next item
connection_state_next ==
  /\ lifespan_pc = "connection_state_wait"
  /\ \E c \in BOOLEAN : state' = [is_connected |-> c]
  /\ lifespan_pc' = "connection_state_body"
  /\ UNCHANGED << lifespan_exit, health, saw_connected, saw_health_ok, link, tasks >>

\* lines 37-39: break when connected, else ask for the next item
connection_state_body ==
  /\ lifespan_pc = "connection_state_body"
  /\ IF state.is_connected
       THEN /\ saw_connected' = TRUE
            /\ lifespan_pc' = "health_wait"
       ELSE /\ saw_connected' = saw_connected
            /\ lifespan_pc' = "connection_state_wait"
  /\ UNCHANGED << lifespan_exit, state, health, saw_health_ok, link, tasks >>

\* line 36: the stream ends, the async for is left without a break; line 41 follows
connection_state_end ==
  /\ lifespan_pc = "connection_state_wait"
  /\ lifespan_pc' = "health_wait"
  /\ UNCHANGED << lifespan_exit, state, health, saw_connected, saw_health_ok, link, tasks >>

\* line 43: the health stream delivers its next item
health_next ==
  /\ lifespan_pc = "health_wait"
  /\ \E g \in BOOLEAN, h \in BOOLEAN :
       health' = [is_global_position_ok |-> g, is_home_position_ok |-> h]
  /\ lifespan_pc' = "health_body"
  /\ UNCHANGED << lifespan_exit, state, saw_connected, saw_health_ok, link, tasks >>

\* lines 44-49: break when a position estimate is there, and yield the session
health_body ==
  /\ lifespan_pc = "health_body"
  /\ IF health.is_global_position_ok \/ health.is_home_position_ok
       THEN /\ saw_health_ok' = TRUE
            /\ lifespan_pc' = "yielded"
       ELSE /\ saw_health_ok' = saw_health_ok
            /\ lifespan_pc' = "health_wait"
  /\ UNCHANGED << lifespan_exit, state, health, saw_connected, link, tasks >>

\* line 43: the health stream ends, the async for is left; lines 48-49 yield
health_end ==
  /\ lifespan_pc = "health_wait"
  /\ lifespan_pc' = "yielded"
  /\ UNCHANGED << lifespan_exit, state, health, saw_connected, saw_health_ok, link, tasks >>

\* lines 33-46 lie outside the try: an error or a cancellation raised at one of
\* these awaits leaves app_lifespan at once
lifespan_interrupted ==
  /\ lifespan_pc \in {"await_connect", "connection_state_wait", "health_wait"}
  /\ \E how \in {"cancelled", "error"} :
       lifespan_exit' = << how, lifespan_pc >>
  /\ lifespan_pc' = "exited"
  /\ UNCHANGED << state, health, saw_connected, saw_health_ok, link, tasks >>

\* lines 50-53: the scope is left (shutdown, or an error thrown in at the yield):
\* the finally dispatches close
lifespan_finally ==
  /\ lifespan_pc = "yielded"
  /\ \E how \in {"shutdown", "error"} :
       lifespan_exit' = << how, "yielded" >>
  /\ link' = [link EXCEPT !.status = "closing"]
  /\ lifespan_pc' = "await_close"
  /\ UNCHANGED << state, health, saw_connected, saw_health_ok, tasks >>

\* line 53 resumes: close returned, app_lifespan is over
close_done ==
  /\ lifespan_pc = "await_close"
  /\ link' = [link EXCEPT !.status = "closed"]
  /\ lifespan_pc' = "exited"
  /\ UNCHANGED << lifespan_exit, state, health, saw_connected, saw_health_ok, tasks >>

Lifespan ==
  \/ app_lifespan
  \/ connect_done
  \/ connection_state_next
  \/ connection_state_body
  \/ connection_state_end
  \/ health_next
  \/ health_body
  \/ health_end
  \/ lifespan_interrupted
  \/ lifespan_finally
  \/ close_done


\* ------------------------------------------------- awaiting the Vehicle Link
\* the calls a tool awaits (the pc of a suspended task is the call it awaits)
LinkOps == { "arm", "set_takeoff_altitude", "takeoff", "land", "set_rate_imu",
             "set_return_to_launch_after_mission", "upload_mission", "start_mission" }
\* the telemetry streams a tool iterates
StreamOps == { "status_text", "imu", "mission_progress" }

Pending == [type |-> "pending"]
Ok == [type |-> "ok"]

\* what the Vehicle Link saw of one invocation
Call(op, arg) == [ev |-> "call", op |-> op, arg |-> arg]
Completed(op) == [ev |-> "completed", op |-> op]
Rejected(op) == [ev |-> "rejected", op |-> op]

\* `await drone.<op>(arg)`: the call goes out and the coroutine is suspended on it
Await(task, op, arg) ==
  [task EXCEPT !.pc = op, !.reply = Pending, !.calls = Append(@, Call(op, arg))]

\* `return value`
Return(task, value) ==
  [task EXCEPT !.pc = "done", !.outcome = "returned", !.ret = value]

\* an exception leaves the tool
Raise(task, e) ==
  [task EXCEPT !.pc = "done", !.outcome = "raised", !.err = e]

\* the task resumes from `await drone.<op>(...)` with the call completed
Resumes(t, op) ==
  /\ Serving
  /\ tasks[t].pc = op
  /\ tasks[t].reply.type = "ok"

\* the Vehicle Link carries out the awaited call; set_takeoff_altitude
\* changes the altitude configured on the link
link_completes(t) ==
  /\ Serving
  /\ tasks[t].pc \in LinkOps
  /\ tasks[t].reply.type = "pending"
  /\ tasks' = [tasks EXCEPT ![t].reply = Ok,
                            ![t].calls = Append(@, Completed(tasks[t].pc))]
  /\ link' = IF tasks[t].pc = "set_takeoff_altitude"
               THEN [link EXCEPT !.takeoff_altitude = tasks[t].calls[Len(tasks[t].calls)].arg]
               ELSE link
  /\ UNCHANGED lifespan_vars

\* the Vehicle Link rejects the awaited call
link_rejects(t, e) ==
  /\ Serving
  /\ tasks[t].pc \in LinkOps
  /\ tasks[t].reply.type = "pending"
  /\ tasks' = [tasks EXCEPT ![t].reply = e,
                            ![t].calls = Append(@, Rejected(tasks[t].pc))]
  /\ UNCHANGED << lifespan_vars, link >>

\* the link's error caught and another one raised in its place
link_error_raised_Wrapped(t) ==
  /\ Serving
  /\ tasks[t].pc \in LinkOps
  /\ tasks[t].reply.type = "LinkError"
  /\ tasks' = [tasks EXCEPT ![t] = Raise(@, [type |-> "RuntimeError", result |-> "FAILED"])]
  /\ UNCHANGED << lifespan_vars, link >>

\* the link's error caught and the same call sent once more
link_error_raised_Retried(t) ==
  /\ Serving
  /\ tasks[t].pc \in LinkOps
  /\ tasks[t].reply.type = "LinkError"
  /\ tasks' = [tasks EXCEPT ![t] = Await(@, tasks[t].pc, << >>)]
  /\ UNCHANGED << lifespan_vars, link >>

\* the task resumes with the link's error: no tool has a handler for it
link_error_raised(t) ==
  /\ Serving
  /\ tasks[t].pc \in LinkOps
  /\ tasks[t].reply.type = "LinkError"
  /\ tasks' = [tasks EXCEPT ![t] = Raise(@, tasks[t].reply)]
  /\ UNCHANGED << lifespan_vars, link >>

\* lines 138-142: the only `except asyncio.CancelledError` of the server
CatchesCancelledError(task) ==
  task.tool = "print_status_text" /\ task.pc = "status_text"

\* the caller cancels a suspended invocation: CancelledError is raised at its await
cancel(t) ==
  /\ Serving
  /\ tasks[t].pc \in LinkOps \cup StreamOps
  /\ tasks' = [tasks EXCEPT ![t] =
                 IF CatchesCancelledError(@) THEN Return(@, "None")
                                             ELSE Raise(@, CancelledError)]
  /\ UNCHANGED << lifespan_vars, link >>

\* a gateway that takes one invocation at a time
Invoked_OneAtATime(t) ==
  /\ Serving
  /\ tasks[t].pc = "idle"
  /\ \A u \in Tasks : tasks[u].pc \in {"idle", "done"}

\* a new invocation of a tool: the lifespan context must be there
Invoked(t) ==
  /\ Serving
  /\ tasks[t].pc = "idle"

NewTask(tool, args) == [IdleTask EXCEPT !.tool = tool, !.args = args]

\* ------------------------------------------------------------------ tools
\* lines 61-65
arm_drone(t) ==
  /\ Invoked(t)
  /\ tasks' = [tasks EXCEPT ![t] = Await(NewTask("arm_drone", [k \in {} |-> 0]), "arm", << >>)]
  /\ UNCHANGED << lifespan_vars, link >>

\* line 66
arm_drone_done(t) ==
  /\ Resumes(t, "arm")
  /\ tasks' = [tasks EXCEPT ![t] = Return(@, "True")]
  /\ UNCHANGED << lifespan_vars, link >>

\* lines 71-82: the body is `pass`
get_position(t, relative) ==
  /\ Invoked(t)
  /\ tasks' = [tasks EXCEPT ![t] =
                 Return(NewTask("get_position", [relative |-> relative]), "None")]
  /\ UNCHANGED << lifespan_vars, link >>

\* lines 85-100: the body is `return True`
move_to_relative(t, lr, fb, altitude, yaw) ==
  /\ Invoked(t)
  /\ tasks' = [tasks EXCEPT ![t] =
                 Return(NewTask("move_to_relative",
                                [lr |-> lr, fb |-> fb, altitude |-> altitude, yaw |-> yaw]),
                        "True")]
  /\ UNCHANGED << lifespan_vars, link >>

\* lines 113-115 with the default 10.0 sent for takeoff_altitude
takeoff_DefaultAltitude(t, takeoff_altitude) ==
  /\ Invoked(t)
  /\ tasks' = [tasks EXCEPT ![t] =
                 Await(NewTask("takeoff", [takeoff_altitude |-> takeoff_altitude]),
                       "set_takeoff_altitude", 10)]
  /\ UNCHANGED << lifespan_vars, link >>

\* lines 113-116 with line 115 left out: the takeoff primitive goes out at once
takeoff_AltitudeNotSet(t, takeoff_altitude) ==
  /\ Invoked(t)
  /\ tasks' = [tasks EXCEPT ![t] =
                 Await(NewTask("takeoff", [takeoff_altitude |-> takeoff_altitude]),
                       "takeoff", link.takeoff_altitude)]
  /\ UNCHANGED << lifespan_vars, link >>

\* lines 103-115
takeoff(t, takeoff_altitude) ==
  /\ Invoked(t)
  /\ tasks' = [tasks EXCEPT ![t] =
                 Await(NewTask("takeoff", [takeoff_altitude |-> takeoff_altitude]),
                       "set_takeoff_altitude", takeoff_altitude)]
  /\ UNCHANGED << lifespan_vars, link >>

\* line 116: the takeoff primitive goes out; the link takes off to the altitude
\* configured on it
takeoff_set_takeoff_altitude_done(t) ==
  /\ Resumes(t, "set_takeoff_altitude")
  /\ tasks' = [tasks EXCEPT ![t] = Await(@, "takeoff", link.takeoff_altitude)]
  /\ UNCHANGED << lifespan_vars, link >>

\* line 117
takeoff_done(t) ==
  /\ Resumes(t, "takeoff")
  /\ tasks' = [tasks EXCEPT ![t] = Return(@, "True")]
  /\ UNCHANGED << lifespan_vars, link >>

\* lines 120-131
land(t) ==
  /\ Invoked(t)
  /\ tasks' = [tasks EXCEPT ![t] = Await(NewTask("land", [k \in {} |-> 0]), "land", << >>)]
  /\ UNCHANGED << lifespan_vars, link >>

\* line 132
land_done(t) ==
  /\ Resumes(t, "land")
  /\ tasks' = [tasks EXCEPT ![t] = Return(@, "True")]
  /\ UNCHANGED << lifespan_vars, link >>


\* -------------------------------------------------------- telemetry tools
\* lines 135-139: subscribe to status_text and wait for the first item
print_status_text(t) ==
  /\ Invoked(t)
  /\ tasks' = [tasks EXCEPT ![t] =
                 [NewTask("print_status_text", [k \in {} |-> 0]) EXCEPT !.pc = "status_text"]]
  /\ UNCHANGED << lifespan_vars, link >>

\* line 139: the stream delivers an item
status_text_next(t) ==
  /\ Serving
  /\ tasks[t].pc = "status_text"
  /\ tasks' = [tasks EXCEPT ![t].pc = "status_text_body"]
  /\ UNCHANGED << lifespan_vars, link >>

\* line 140: log it and wait for the next one
status_text_body(t) ==
  /\ Serving
  /\ tasks[t].pc = "status_text_body"
  /\ tasks' = [tasks EXCEPT ![t].pc = "status_text"]
  /\ UNCHANGED << lifespan_vars, link >>

\* line 139: the stream ends, the function falls off its end
status_text_end(t) ==
  /\ Serving
  /\ tasks[t].pc = "status_text"
  /\ tasks' = [tasks EXCEPT ![t] = Return([@ EXCEPT !.ended = TRUE], "None")]
  /\ UNCHANGED << lifespan_vars, link >>

\* lines 191-199: subscribe to mission_progress and wait for the first item
print_mission_progress(t) ==
  /\ Invoked(t)
  /\ tasks' = [tasks EXCEPT ![t] =
                 [NewTask("print_mission_progress", [k \in {} |-> 0])
                    EXCEPT !.pc = "mission_progress"]]
  /\ UNCHANGED << lifespan_vars, link >>

\* line 199: the stream delivers an item
mission_progress_next(t) ==
  /\ Serving
  /\ tasks[t].pc = "mission_progress"
  /\ tasks' = [tasks EXCEPT ![t].pc = "mission_progress_body"]
  /\ UNCHANGED << lifespan_vars, link >>

\* line 200: log it and wait for the next one
mission_progress_body(t) ==
  /\ Serving
  /\ tasks[t].pc = "mission_progress_body"
  /\ tasks' = [tasks EXCEPT ![t].pc = "mission_progress"]
  /\ UNCHANGED << lifespan_vars, link >>

\* line 199: the stream ends, the function falls off its end
mission_progress_end(t) ==
  /\ Serving
  /\ tasks[t].pc = "mission_progress"
  /\ tasks' = [tasks EXCEPT ![t] = Return([@ EXCEPT !.ended = TRUE], "None")]
  /\ UNCHANGED << lifespan_vars, link >>

\* the items of telemetry.imu(): mavsdk Imu records
ImuSamples ==
  { [ timestamp_us |-> 1000,
      acceleration_frd |-> [forward_m_s2 |-> 1, right_m_s2 |-> 2, down_m_s2 |-> 3],
      angular_velocity_frd |-> [forward_rad_s |-> 4, right_rad_s |-> 5, down_rad_s |-> 6],
      magnetic_field_frd |-> [forward_gauss |-> 7, right_gauss |-> 8, down_gauss |-> 9],
      temperature_degc |-> 20 ],
    [ timestamp_us |-> 6000,
      acceleration_frd |-> [forward_m_s2 |-> 0, right_m_s2 |-> -1, down_m_s2 |-> 10],
      angular_velocity_frd |-> [forward_rad_s |-> -2, right_rad_s |-> 0, down_rad_s |-> 1],
      magnetic_field_frd |-> [forward_gauss |-> 3, right_gauss |-> -3, down_gauss |-> 5],
      temperature_degc |-> 21 ],
    [ timestamp_us |-> 11000,
      acceleration_frd |-> [forward_m_s2 |-> 2, right_m_s2 |-> 2, down_m_s2 |-> 9],
      angular_velocity_frd |-> [forward_rad_s |-> 1, right_rad_s |-> 1, down_rad_s |-> 0],
      magnetic_field_frd |-> [forward_gauss |-> 4, right_gauss |-> 0, down_gauss |-> 6],
      temperature_degc |-> 22 ] }

\* lines 165-183: the dictionary made of one Imu item
ImuDict(imu) ==
  [ timestamp_us |-> imu.timestamp_us,
    acceleration |-> [ x |-> imu.acceleration_frd.forward_m_s2,
                       y |-> imu.acceleration_frd.right_m_s2,
                       z |-> imu.acceleration_frd.down_m_s2 ],
    angular_velocity |-> [ x |-> imu.angular_velocity_frd.forward_rad_s,
                           y |-> imu.angular_velocity_frd.right_rad_s,
                           z |-> imu.angular_velocity_frd.down_rad_s ],
    magnetic_field |-> [ x |-> imu.magnetic_field_frd.forward_gauss,
                         y |-> imu.magnetic_field_frd.right_gauss,
                         z |-> imu.magnetic_field_frd.down_gauss ],
    temperature_degc |-> imu.temperature_degc ]

\* line 185 with > for >=: one item too many is taken
ImuEnough_OneMore(count, n) == count > n

\* lines 185-186: the loop is left once count has reached n
ImuEnough(count, n) == count >= n

\* lines 145-159
get_imu(t, n) ==
  /\ Invoked(t)
  /\ tasks' = [tasks EXCEPT ![t] =
                 Await(NewTask("get_imu", [n |-> n]), "set_rate_imu", ImuRateHz)]
  /\ UNCHANGED << lifespan_vars, link >>

\* lines 161-164: imu_data = [], count = 0, subscribe and wait for the first item
get_imu_set_rate_imu_done(t) ==
  /\ Resumes(t, "set_rate_imu")
  /\ tasks' = [tasks EXCEPT ![t] = [@ EXCEPT !.pc = "imu", !.imu_data = << >>, !.count = 0]]
  /\ UNCHANGED << lifespan_vars, link >>

\* lines 164-188 with the test of line 187 moved to the top of the loop body:
\* an item that arrives when count >= n is dropped
imu_next_CheckFirst(t) ==
  /\ Serving
  /\ tasks[t].pc = "imu"
  /\ Len(tasks[t].arrived) < MaxImuItems
  /\ \E imu \in ImuSamples :
       LET got == [tasks[t] EXCEPT !.arrived = Append(@, imu)]
           task == [got EXCEPT !.imu_data = Append(@, ImuDict(imu)),
                               !.count = @ + 1]
       IN  tasks' = [tasks EXCEPT ![t] =
                       IF ImuEnough(got.count, got.args.n)
                         THEN Return(got, "imu_data")
                         ELSE task]
  /\ UNCHANGED << lifespan_vars, link >>

\* lines 164-188: the stream delivers an item: append, count, break and return
\* when enough, else wait for the next one
imu_next(t) ==
  /\ Serving
  /\ tasks[t].pc = "imu"
  /\ Len(tasks[t].arrived) < MaxImuItems
  /\ \E imu \in ImuSamples :
       LET task == [tasks[t] EXCEPT !.arrived = Append(@, imu),
                                    !.imu_data = Append(@, ImuDict(imu)),
                                    !.count = @ + 1]
       IN  tasks' = [tasks EXCEPT ![t] =
                       IF ImuEnough(task.count, task.args.n)
                         THEN Return(task, "imu_data")
                         ELSE task]
  /\ UNCHANGED << lifespan_vars, link >>

\* lines 164, 188: the stream ends: return what was collected
imu_end(t) ==
  /\ Serving
  /\ tasks[t].pc = "imu"
  /\ tasks' = [tasks EXCEPT ![t] = Return([@ EXCEPT !.ended = TRUE], "imu_data")]
  /\ UNCHANGED << lifespan_vars, link >>


\* --------------------------------------------------------- initiate_mission
\* a mission point is a dictionary: a function on the keys it carries
With(p, key, value) == [k \in DOMAIN p \cup {key} |-> IF k = key THEN value ELSE p[k]]
Without(p, key) == [k \in DOMAIN p \ {key} |-> p[k]]

RequiredFields ==
  << "latitude_deg", "longitude_deg", "relative_altitude_m", "speed_m_s", "is_fly_through" >>

\* a point that passes the validation
GoodPoint ==
  [ latitude_deg |-> 10, longitude_deg |-> 20, relative_altitude_m |-> 5,
    speed_m_s |-> 3, is_fly_through |-> TRUE ]

\* the mission points the invocations are drawn from: valid ones (on the limits,
\* with optional fields, some of them 0), out of range, fields missing, and both
MissionPoints ==
  { GoodPoint,
    With(With(GoodPoint, "latitude_deg", 90), "longitude_deg", -180),
    With(With(With(With(GoodPoint, "latitude_deg", -90), "gimbal_pitch_deg", 0),
              "camera_action", "CameraAction.TAKE_PHOTO"), "is_fly_through", FALSE),
    With(GoodPoint, "latitude_deg", 91),
    With(GoodPoint, "latitude_deg", -91),
    With(GoodPoint, "longitude_deg", 181),
    With(GoodPoint, "longitude_deg", -181),
    With(With(GoodPoint, "latitude_deg", 95), "longitude_deg", 200),
    With(Without(GoodPoint, "speed_m_s"), "latitude_deg", 92),
    With(Without(GoodPoint, "latitude_deg"), "longitude_deg", 182) }
  \cup { Without(GoodPoint, RequiredFields[i]) : i \in 1..Len(RequiredFields) }

\* all batches of at most n points of a set
RECURSIVE Batches(_, _)
Batches(points, n) ==
  IF n = 0 THEN { << >> }
  ELSE LET shorter == Batches(points, n - 1)
       IN  shorter \cup { Append(b, p) : b \in { c \in shorter : Len(c) = n - 1 }, p \in points }

\* line 238
InvalidLatitude(v) ==
  [ type |-> "ValueError",
    message |-> << "Invalid latitude_deg: ", v, ". Must be between -90 and 90." >> ]
\* line 240
InvalidLongitude(v) ==
  [ type |-> "ValueError",
    message |-> << "Invalid longitude_deg: ", v, ". Must be between -180 and 180." >> ]
\* line 259 with the KeyError left out of the message
MissingField_Unnamed(key) ==
  [ type |-> "ValueError",
    message |-> << "Missing required field in mission point: ", << "'", "", "'" >> >> ]

\* lines 258-259: str() of a KeyError is its key in quotes
MissingField(key) ==
  [ type |-> "ValueError",
    message |-> << "Missing required field in mission point: ", << "'", key, "'" >> >> ]

\* line 237 with the upper limit forgotten
LatitudeOk_NoUpperLimit(v) == -90 <= v

\* line 237
LatitudeOk(v) == -90 <= v /\ v <= 90
\* line 239
LongitudeOk(v) == -180 <= v /\ v <= 180

\* lines 242-257 with 0 for float('nan') as the default of the numeric optionals
MissionItem_ZeroDefaults(point) ==
  [ latitude_deg |-> point["latitude_deg"],
    longitude_deg |-> point["longitude_deg"],
    relative_altitude_m |-> point["relative_altitude_m"],
    speed_m_s |-> point["speed_m_s"],
    is_fly_through |-> point["is_fly_through"],
    gimbal_pitch_deg |-> Get(point, "gimbal_pitch_deg", 0),
    gimbal_yaw_deg |-> Get(point, "gimbal_yaw_deg", 0),
    camera_action |-> Get(point, "camera_action", CameraAction_NONE),
    loiter_time_s |-> Get(point, "loiter_time_s", 0),
    camera_photo_interval_s |-> Get(point, "camera_photo_interval_s", 0),
    acceptance_radius_m |-> Get(point, "acceptance_radius_m", 0),
    yaw_deg |-> Get(point, "yaw_deg", 0),
    camera_photo_distance_m |-> Get(point, "camera_photo_distance_m", 0),
    vehicle_action |-> Get(point, "vehicle_action", VehicleAction_NONE) ]

\* lines 242-257
MissionItem(point) ==
  [ latitude_deg |-> point["latitude_deg"],
    longitude_deg |-> point["longitude_deg"],
    relative_altitude_m |-> point["relative_altitude_m"],
    speed_m_s |-> point["speed_m_s"],
    is_fly_through |-> point["is_fly_through"],
    gimbal_pitch_deg |-> Get(point, "gimbal_pitch_deg", NaN),
    gimbal_yaw_deg |-> Get(point, "gimbal_yaw_deg", NaN),
    camera_action |-> Get(point, "camera_action", CameraAction_NONE),
    loiter_time_s |-> Get(point, "loiter_time_s", NaN),
    camera_photo_interval_s |-> Get(point, "camera_photo_interval_s", NaN),
    acceptance_radius_m |-> Get(point, "acceptance_radius_m", NaN),
    yaw_deg |-> Get(point, "yaw_deg", NaN),
    camera_photo_distance_m |-> Get(point, "camera_photo_distance_m", NaN),
    vehicle_action |-> Get(point, "vehicle_action", VehicleAction_NONE) ]

\* lines 235-259, one pass of the loop body: the error it raises, in the order
\* the body reads the keys, or none
PointError(point) ==
  IF "latitude_deg" \notin DOMAIN point THEN MissingField("latitude_deg")
  ELSE IF ~LatitudeOk(point["latitude_deg"]) THEN InvalidLatitude(point["latitude_deg"])
  ELSE IF "longitude_deg" \notin DOMAIN point THEN MissingField("longitude_deg")
  ELSE IF ~LongitudeOk(point["longitude_deg"]) THEN InvalidLongitude(point["longitude_deg"])
  ELSE IF "relative_altitude_m" \notin DOMAIN point THEN MissingField("relative_altitude_m")
  ELSE IF "speed_m_s" \notin DOMAIN point THEN MissingField("speed_m_s")
  ELSE IF "is_fly_through" \notin DOMAIN point THEN MissingField("is_fly_through")
  ELSE NoError

\* lines 233-259 behind a check that refuses an empty mission_points
ValidateAndBuild_RejectEmpty(mission_points, i, mission_items) ==
  LET bad == { j \in i..Len(mission_points) : PointError(mission_points[j]).type # "none" }
      stop == IF bad = {} THEN Len(mission_points)
              ELSE CHOOSE j \in bad : \A k \in bad : j <= k
  IN  IF mission_points = << >>
        THEN [ err |-> [type |-> "ValueError", message |-> << "Empty mission" >>],
               mission_items |-> mission_items, evaluated |-> 0 ]
        ELSE [ err |-> IF bad = {} THEN NoError ELSE PointError(mission_points[stop]),
               mission_items |-> [j \in 1..(IF bad = {} THEN stop ELSE stop - 1) |->
                                    MissionItem(mission_points[j])],
               evaluated |-> stop ]

\* lines 233-259 with the error kept for after the loop: every point is
\* evaluated and the error of the last bad one is raised
ValidateAndBuild_LastError(mission_points, i, mission_items) ==
  LET bad == { j \in i..Len(mission_points) : PointError(mission_points[j]).type # "none" }
  IN  IF bad = {}
        THEN [ err |-> NoError,
               mission_items |-> [j \in 1..Len(mission_points) |-> MissionItem(mission_points[j])],
               evaluated |-> Len(mission_points) ]
        ELSE [ err |-> PointError(mission_points[CHOOSE j \in bad : \A k \in bad : k <= j]),
               mission_items |-> mission_items,
               evaluated |-> Len(mission_points) ]

\* lines 233-259: the loop over mission_points from point i on; it stops at the
\* first error
RECURSIVE ValidateAndBuild(_, _, _)
ValidateAndBuild(mission_points, i, mission_items) ==
  IF i > Len(mission_points)
    THEN [err |-> NoError, mission_items |-> mission_items, evaluated |-> i - 1]
  ELSE IF PointError(mission_points[i]).type # "none"
    THEN [err |-> PointError(mission_points[i]), mission_items |-> mission_items,
          evaluated |-> i]
  ELSE ValidateAndBuild(mission_points, i + 1,
                        Append(mission_items, MissionItem(mission_points[i])))

\* line 261
MissionPlan(mission_items) == [mission_items |-> mission_items]

\* lines 230-264: validate, build the items, and dispatch the first call
initiate_mission(t, mission_points, return_to_launch) ==
  /\ Invoked(t)
  /\ LET built == ValidateAndBuild(mission_points, 1, << >>)
         task == [NewTask("initiate_mission",
                          [mission_points |-> mission_points,
                           return_to_launch |-> return_to_launch])
                    EXCEPT !.mission_items = built.mission_items,
                           !.evaluated = built.evaluated]
     IN  tasks' = [tasks EXCEPT ![t] =
                     IF built.err.type # "none"
                       THEN Raise(task, built.err)
                       ELSE Await(task, "set_return_to_launch_after_mission",
                                  return_to_launch)]
  /\ UNCHANGED << lifespan_vars, link >>

\* lines 266-270 with the upload left out: start_mission follows at once
initiate_mission_set_return_to_launch_done_NoUpload(t) ==
  /\ Resumes(t, "set_return_to_launch_after_mission")
  /\ tasks' = [tasks EXCEPT ![t] = Await(@, "start_mission", << >>)]
  /\ UNCHANGED << lifespan_vars, link >>

\* lines 266-267
initiate_mission_set_return_to_launch_done(t) ==
  /\ Resumes(t, "set_return_to_launch_after_mission")
  /\ tasks' = [tasks EXCEPT ![t] =
                 Await(@, "upload_mission", MissionPlan(tasks[t].mission_items))]
  /\ UNCHANGED << lifespan_vars, link >>

\* lines 269-270
initiate_mission_upload_done(t) ==
  /\ Resumes(t, "upload_mission")
  /\ tasks' = [tasks EXCEPT ![t] = Await(@, "start_mission", << >>)]
  /\ UNCHANGED << lifespan_vars, link >>

\* line 272
initiate_mission_start_done(t) ==
  /\ Resumes(t, "start_mission")
  /\ tasks' = [tasks EXCEPT ![t] = Return(@, "True")]
  /\ UNCHANGED << lifespan_vars, link >>


\* ---------------------------------------------------------- specifications
\* what a task in flight does next, whatever the tool
ToolRuns(t) ==
  \/ link_completes(t)
  \/ \E e \in {[type |-> "LinkError", result |-> "DENIED"]} : link_rejects(t, e)
  \/ link_error_raised(t)
  \/ cancel(t)
  \/ arm_drone_done(t)
  \/ takeoff_set_takeoff_altitude_done(t)
  \/ takeoff_done(t)
  \/ land_done(t)
  \/ status_text_next(t)
  \/ status_text_body(t)
  \/ status_text_end(t)
  \/ mission_progress_next(t)
  \/ mission_progress_body(t)
  \/ mission_progress_end(t)
  \/ get_imu_set_rate_imu_done(t)
  \/ imu_next(t)
  \/ imu_end(t)
  \/ initiate_mission_set_return_to_launch_done(t)
  \/ initiate_mission_upload_done(t)
  \/ initiate_mission_start_done(t)

\* a caller invokes a tool
ToolInvoked(t) ==
  \/ arm_drone(t)
  \/ \E relative \in BOOLEAN : get_position(t, relative)
  \/ \E lr \in {2}, fb \in {-3}, altitude \in {1}, yaw \in {90} :
       move_to_relative(t, lr, fb, altitude, yaw)
  \/ \E takeoff_altitude \in {5, 10} : takeoff(t, takeoff_altitude)
  \/ land(t)
  \/ print_status_text(t)
  \/ print_mission_progress(t)
  \/ get_imu(t, 1)
  \/ \E mission_points \in {<< GoodPoint >>} : initiate_mission(t, mission_points, TRUE)

\* the server: the session scope and an invocation made in it
Next ==
  \/ Lifespan
  \/ ToolInvoked(1)
  \/ ToolRuns(1)

Spec == Init /\ [][Next]_vars

\* the same, with the steps the event loop and the link are sure to take: the
\* code of a resumed coroutine runs, and connect is answered; nothing makes a
\* stream deliver or end
FairSpec ==
  /\ Spec
  /\ WF_vars(app_lifespan)
  /\ WF_vars(connect_done)
  /\ WF_vars(connection_state_body)
  /\ WF_vars(health_body)

\* a session that app_lifespan has yielded after both loops left by their break
SessionOpen ==
  /\ lifespan_pc = "yielded"
  /\ lifespan_exit = << "", "" >>
  /\ state = [is_connected |-> TRUE]
  /\ health = [is_global_position_ok |-> TRUE, is_home_position_ok |-> FALSE]
  /\ saw_connected = TRUE
  /\ saw_health_ok = TRUE
  /\ link = [ status |-> "connected",
              system_address |-> SystemAddress([MAVLINK_ADDRESS |-> "10.0.0.5"]),
              takeoff_altitude |-> 0 ]
  /\ tasks = [t \in Tasks |-> IdleTask]

\* up to MaxTasks invocations in flight in one open session
ToolsNext == \E t \in Tasks : ToolInvoked(t) \/ ToolRuns(t)

ToolsSpec == SessionOpen /\ [][ToolsNext]_vars

\* one initiate_mission in an open session, over all batches of mission points
MissionNext ==
  \/ \E mission_points \in Batches(MissionPoints, MaxPoints), return_to_launch \in BOOLEAN :
       initiate_mission(1, mission_points, return_to_launch)
  \/ initiate_mission_set_return_to_launch_done(1)
  \/ initiate_mission_upload_done(1)
  \/ initiate_mission_start_done(1)
  \/ link_completes(1)
  \/ \E e \in LinkErrors : link_rejects(1, e)
  \/ link_error_raised(1)
  \/ cancel(1)

MissionSpec == SessionOpen /\ [][MissionNext]_vars

\* one get_imu in an open session, over n and over the streams
ImuNext ==
  \/ \E n \in -1..MaxN : get_imu(1, n)
  \/ get_imu_set_rate_imu_done(1)
  \/ imu_next(1)
  \/ imu_end(1)
  \/ link_completes(1)
  \/ \E e \in LinkErrors : link_rejects(1, e)
  \/ link_error_raised(1)
  \/ cancel(1)

ImuSpec == SessionOpen /\ [][ImuNext]_vars


\* ------------------------------------------------------------------ claims
\* the rules of the mission-point validation, stated on the input
LatitudeOutOfRange(p) ==
  "latitude_deg" \in DOMAIN p /\ (p["latitude_deg"] < -90 \/ p["latitude_deg"] > 90)
LongitudeOutOfRange(p) ==
  "longitude_deg" \in DOMAIN p /\ (p["longitude_deg"] < -180 \/ p["longitude_deg"] > 180)
OutOfRange(p) == LatitudeOutOfRange(p) \/ LongitudeOutOfRange(p)
LacksRequired(p) == \E i \in 1..Len(RequiredFields) : RequiredFields[i] \notin DOMAIN p
ValidPoint(p) == ~OutOfRange(p) /\ ~LacksRequired(p)

IsMission(t) == tasks[t].tool = "initiate_mission"
PointsOf(t) == tasks[t].args.mission_points
SomePoint(t, P(_)) == \E i \in 1..Len(PointsOf(t)) : P(PointsOf(t)[i])
\* the lowest index of a point with P
First(t, P(_)) ==
  CHOOSE i \in 1..Len(PointsOf(t)) :
    P(PointsOf(t)[i]) /\ \A j \in 1..(i - 1) : ~P(PointsOf(t)[j])

\* the error is a range error that names the out-of-range latitude or longitude of p
NamesOffendingValue(e, p) ==
  /\ e.type = "ValueError"
  /\ \/ /\ LatitudeOutOfRange(p)
        /\ e.message[1] = "Invalid latitude_deg: "
        /\ e.message[2] = p["latitude_deg"]
     \/ /\ LongitudeOutOfRange(p)
        /\ e.message[1] = "Invalid longitude_deg: "
        /\ e.message[2] = p["longitude_deg"]

\* the error is a missing-field error that names a required field p lacks
NamesMissingField(e, p) ==
  /\ e.type = "ValueError"
  /\ e.message[1] = "Missing required field in mission point: "
  /\ \E i \in 1..Len(RequiredFields) :
       /\ RequiredFields[i] \notin DOMAIN p
       /\ e.message[2][2] = RequiredFields[i]

\* the invocation failed in the validation, before any call to the Vehicle Link
RejectedBeforeAnyCall(t) ==
  /\ tasks[t].outcome = "raised"
  /\ tasks[t].err.type = "ValueError"
  /\ tasks[t].calls = << >>

\* C1 as stated: a batch with an out-of-range point fails with a range error
\* naming the offending value of an out-of-range point, with no call to the link
C1_RangeErrorAlways ==
  \A t \in Tasks :
    IsMission(t) /\ SomePoint(t, OutOfRange) =>
      /\ RejectedBeforeAnyCall(t)
      /\ \E i \in 1..Len(PointsOf(t)) :
           OutOfRange(PointsOf(t)[i]) /\ NamesOffendingValue(tasks[t].err, PointsOf(t)[i])

\* C1 amended: a batch with an out-of-range point fails with a ValueError and no
\* call to the link; the error is the range error naming the latitude (else the
\* longitude) of the first out-of-range point when no point up to and including
\* that one lacks a required field
C1_RangeErrorUnlessMissingFirst ==
  \A t \in Tasks :
    IsMission(t) /\ SomePoint(t, OutOfRange) =>
      /\ RejectedBeforeAnyCall(t)
      /\ LET f == First(t, OutOfRange)
             p == PointsOf(t)[f]
         IN  (\A j \in 1..f : ~LacksRequired(PointsOf(t)[j])) =>
               /\ tasks[t].err.message[2] =
                    IF LatitudeOutOfRange(p) THEN p["latitude_deg"] ELSE p["longitude_deg"]
               /\ tasks[t].err.message[1] =
                    IF LatitudeOutOfRange(p) THEN "Invalid latitude_deg: "
                                             ELSE "Invalid longitude_deg: "

\* a valid point, then a point with the longitude out of range: rejected with
\* that longitude
C1_Witness ==
  /\ IsMission(1)
  /\ Len(PointsOf(1)) = 2
  /\ ValidPoint(PointsOf(1)[1])
  /\ LongitudeOutOfRange(PointsOf(1)[2])
  /\ RejectedBeforeAnyCall(1)
  /\ NamesOffendingValue(tasks[1].err, PointsOf(1)[2])

\* C2 as stated: a batch with a point lacking a required field fails with an
\* error naming a missing field, with no call to the link
C2_MissingErrorAlways ==
  \A t \in Tasks :
    IsMission(t) /\ SomePoint(t, LacksRequired) =>
      /\ RejectedBeforeAnyCall(t)
      /\ \E i \in 1..Len(PointsOf(t)) : NamesMissingField(tasks[t].err, PointsOf(t)[i])

\* C2 amended: a batch with a point lacking a required field fails with a
\* ValueError and no call to the link; the error names the first required field
\* (in the order latitude, longitude, altitude, speed, fly-through) that the
\* first such point lacks when no point up to and including that one has a
\* coordinate out of range
C2_MissingErrorUnlessRangeFirst ==
  \A t \in Tasks :
    IsMission(t) /\ SomePoint(t, LacksRequired) =>
      /\ RejectedBeforeAnyCall(t)
      /\ LET f == First(t, LacksRequired)
             p == PointsOf(t)[f]
             k == CHOOSE i \in 1..Len(RequiredFields) :
                    /\ RequiredFields[i] \notin DOMAIN p
                    /\ \A j \in 1..(i - 1) : RequiredFields[j] \in DOMAIN p
         IN  (\A j \in 1..f : ~OutOfRange(PointsOf(t)[j])) =>
               /\ tasks[t].err.message[1] = "Missing required field in mission point: "
               /\ tasks[t].err.message[2] = << "'", RequiredFields[k], "'" >>

\* a valid point, then a point without speed_m_s: rejected naming speed_m_s
C2_Witness ==
  /\ IsMission(1)
  /\ Len(PointsOf(1)) = 2
  /\ ValidPoint(PointsOf(1)[1])
  /\ DOMAIN GoodPoint \ DOMAIN PointsOf(1)[2] = {"speed_m_s"}
  /\ RejectedBeforeAnyCall(1)
  /\ tasks[1].err.message[2][2] = "speed_m_s"


\* the calls of a mission that runs to its end, by position in the link's record
MissionOps ==
  << "set_return_to_launch_after_mission", "set_return_to_launch_after_mission",
     "upload_mission", "upload_mission", "start_mission", "start_mission" >>

\* the record is a beginning of: call and completion of set_return_to_launch_after_mission,
\* of upload_mission, of start_mission; only its last entry may be a rejection
InMissionOrder(calls) ==
  /\ Len(calls) <= Len(MissionOps)
  /\ \A k \in 1..Len(calls) :
       /\ calls[k].op = MissionOps[k]
       /\ IF k % 2 = 1 THEN calls[k].ev = "call"
          ELSE calls[k].ev = "completed" \/ (calls[k].ev = "rejected" /\ k = Len(calls))

\* the plan has one item per point, in the order of the points
PlanOfPoints(plan, points) ==
  /\ Len(plan.mission_items) = Len(points)
  /\ \A i \in 1..Len(points) : \A k \in 1..Len(RequiredFields) :
       plan.mission_items[i][RequiredFields[k]] = points[i][RequiredFields[k]]

\* C3: for a batch of valid points the link sees set_return_to_launch_after_mission
\* (return_to_launch), upload_mission(plan), start_mission in this order, each at
\* most once and each after the one before has completed; the plan has one item
\* per point in input order; True is returned only after all three completed
C3_MissionSequence ==
  \A t \in Tasks :
    (IsMission(t) /\ \A i \in 1..Len(PointsOf(t)) : ValidPoint(PointsOf(t)[i])) =>
      LET calls == tasks[t].calls IN
      /\ tasks[t].err.type # "ValueError"
      /\ InMissionOrder(calls)
      /\ Len(calls) >= 1 => calls[1].arg = tasks[t].args.return_to_launch
      /\ Len(calls) >= 3 => PlanOfPoints(calls[3].arg, PointsOf(t))
      /\ tasks[t].ret = "True" => Len(calls) = 6 /\ calls[6].ev = "completed"
      /\ (tasks[t].outcome = "returned") = (tasks[t].ret = "True")

\* two valid points, no return to launch: all three calls completed, True returned
C3_Witness ==
  /\ IsMission(1)
  /\ Len(PointsOf(1)) = 2
  /\ PointsOf(1)[1] # PointsOf(1)[2]
  /\ \A i \in 1..2 : ValidPoint(PointsOf(1)[i])
  /\ ~tasks[1].args.return_to_launch
  /\ tasks[1].ret = "True"
  /\ Len(tasks[1].calls) = 6

\* C10: when the link rejects set_return_to_launch_after_mission, upload_mission
\* or start_mission, no later call goes to the link (no later stage, no rollback),
\* True is never returned, and what the invocation raises is the link's own
\* error (or the CancelledError of a caller that cancelled it meanwhile)
C10_FailurePropagates ==
  \A t \in Tasks :
    (IsMission(t) /\ \E k \in 1..Len(tasks[t].calls) : tasks[t].calls[k].ev = "rejected") =>
      /\ tasks[t].calls[Len(tasks[t].calls)].ev = "rejected"
      /\ Cardinality({ k \in 1..Len(tasks[t].calls) : tasks[t].calls[k].ev = "call" })
           = (Len(tasks[t].calls) + 1) \div 2
      /\ tasks[t].reply \in LinkErrors
      /\ tasks[t].ret # "True"
      /\ tasks[t].outcome # "returned"
      /\ tasks[t].pc = "done" =>
           /\ tasks[t].outcome = "raised"
           /\ tasks[t].err.type # "CancelledError" => tasks[t].err = tasks[t].reply

\* upload_mission was rejected with TIMEOUT after set_return_to_launch_after_mission
\* completed: the invocation raised that error
C10_Witness ==
  /\ IsMission(1)
  /\ Len(tasks[1].calls) = 4
  /\ tasks[1].calls[4] = Rejected("upload_mission")
  /\ tasks[1].outcome = "raised"
  /\ tasks[1].err = [type |-> "LinkError", result |-> "TIMEOUT"]


\* C4: once connect has returned, app_lifespan never ends, by whatever path
\* (shutdown, an error in the scope, an error or a cancellation in the waits
\* after connect), without the link closed
C4_ClosedOnEveryExit ==
  (lifespan_pc = "exited" /\ lifespan_exit[2] # "await_connect") => link.status = "closed"

\* C5: the session is yielded, and a tool runs, only after an item with
\* is_connected and then an item with a position estimate have been received; the
\* health stream is not read before the connection was reported
C5_ReadyBeforeYield ==
  /\ lifespan_pc = "health_body" => saw_connected
  /\ (lifespan_pc = "yielded" \/ tasks[1].pc # "idle") => saw_connected /\ saw_health_ok

\* C6: if connected, or a position estimate, is never reported, session open
\* (when nothing from outside cancels or fails it) eventually ends with a
\* 'not ready' failure
C6_OpenFailsWhenNeverReady ==
  ( /\ []~(saw_connected /\ saw_health_ok)
    /\ []~(lifespan_exit[1] \in {"cancelled", "error"}) )
  => <>(lifespan_exit[1] = "not ready")


IsRelay(t) == tasks[t].tool \in {"print_status_text", "print_mission_progress"}

\* C7: a relay that was cancelled while it waited for its next item ends
\* normally: no relay invocation ever ends by raising
C7_CancelEndsRelayNormally ==
  \A t \in Tasks :
    (IsRelay(t) /\ tasks[t].pc = "done") =>
      tasks[t].outcome = "returned" /\ tasks[t].err.type = "none"

\* the dictionary holds the fields of the Imu item, forward/right/down as x/y/z
SameSample(d, imu) ==
  /\ d.timestamp_us = imu.timestamp_us
  /\ d.acceleration = [ x |-> imu.acceleration_frd.forward_m_s2,
                        y |-> imu.acceleration_frd.right_m_s2,
                        z |-> imu.acceleration_frd.down_m_s2 ]
  /\ d.angular_velocity = [ x |-> imu.angular_velocity_frd.forward_rad_s,
                            y |-> imu.angular_velocity_frd.right_rad_s,
                            z |-> imu.angular_velocity_frd.down_rad_s ]
  /\ d.magnetic_field = [ x |-> imu.magnetic_field_frd.forward_gauss,
                          y |-> imu.magnetic_field_frd.right_gauss,
                          z |-> imu.magnetic_field_frd.down_gauss ]
  /\ d.temperature_degc = imu.temperature_degc

\* C8: get_imu(n), n >= 1, sets the IMU rate to 200 Hz before it takes an item,
\* never takes more than n items, and returns the items it took in arrival
\* order: n of them, or all of a stream that ended with fewer
C8_ImuBatch ==
  \A t \in Tasks :
    (tasks[t].tool = "get_imu" /\ tasks[t].args.n >= 1) =>
      LET n == tasks[t].args.n
          arrived == tasks[t].arrived
          calls == tasks[t].calls
      IN
      /\ Len(calls) >= 1 => calls[1] = Call("set_rate_imu", 200)
      /\ Len(calls) <= 2
      /\ Len(arrived) >= 1 => Len(calls) = 2 /\ calls[2] = Completed("set_rate_imu")
      /\ Len(arrived) <= n
      /\ tasks[t].outcome = "returned" =>
           /\ tasks[t].ret = "imu_data"
           /\ Len(tasks[t].imu_data) = Len(arrived)
           /\ \A i \in 1..Len(arrived) : SameSample(tasks[t].imu_data[i], arrived[i])
           /\ IF tasks[t].ended THEN Len(arrived) < n ELSE Len(arrived) = n

\* get_imu(2) returned two different samples
C8_Witness ==
  /\ tasks[1].tool = "get_imu"
  /\ tasks[1].args.n = 2
  /\ tasks[1].outcome = "returned"
  /\ Len(tasks[1].imu_data) = 2
  /\ tasks[1].imu_data[1] # tasks[1].imu_data[2]
  /\ ~tasks[1].ended

IsCommand(t) == tasks[t].tool \in {"arm_drone", "takeoff", "land", "initiate_mission"}

\* the task is suspended waiting for the next item of its telemetry stream
WaitsForTelemetry(t) ==
  /\ tasks[t].tool \in {"print_status_text", "print_mission_progress", "get_imu"}
  /\ tasks[t].pc \in StreamOps

\* C9: while an invocation waits for its next telemetry item, a command can be
\* invoked, its call is carried out by the link, and it resumes after each call,
\* up to its return
C9_RelayBlocksNoCommand ==
  \A r \in Tasks, c \in Tasks :
    (r # c /\ WaitsForTelemetry(r)) =>
      /\ tasks[c].pc = "idle" =>
           /\ ENABLED arm_drone(c)
           /\ ENABLED takeoff(c, 10)
           /\ ENABLED land(c)
           /\ ENABLED initiate_mission(c, << GoodPoint >>, TRUE)
      /\ (IsCommand(c) /\ tasks[c].pc \in LinkOps /\ tasks[c].reply.type = "pending") =>
           ENABLED link_completes(c)
      /\ (IsCommand(c) /\ tasks[c].pc \in LinkOps /\ tasks[c].reply.type = "ok") =>
           ENABLED ( \/ arm_drone_done(c)
                     \/ takeoff_set_takeoff_altitude_done(c)
                     \/ takeoff_done(c)
                     \/ land_done(c)
                     \/ initiate_mission_set_return_to_launch_done(c)
                     \/ initiate_mission_upload_done(c)
                     \/ initiate_mission_start_done(c) )

\* print_status_text waits for an item and an initiate_mission invoked
\* meanwhile has returned True
C9_Witness ==
  \E r \in Tasks, c \in Tasks :
    /\ tasks[r].tool = "print_status_text"
    /\ WaitsForTelemetry(r)
    /\ tasks[c].tool = "initiate_mission"
    /\ tasks[c].ret = "True"


\* the link rejected a call of the invocation
WasRejected(t) == \E k \in 1..Len(tasks[t].calls) : tasks[t].calls[k].ev = "rejected"

\* how often the invocation sent the call op to the link
Dispatched(t, op) ==
  Cardinality({ k \in 1..Len(tasks[t].calls) :
                  tasks[t].calls[k].ev = "call" /\ tasks[t].calls[k].op = op })

\* C11: when the link rejects the primitive of arm_drone, takeoff or land, the
\* invocation never returns True and ends by raising; no primitive is sent to
\* the link more than once by one invocation
C11_RejectedNeverTrueNoRetry ==
  \A t \in Tasks :
    tasks[t].tool \in {"arm_drone", "takeoff", "land"} =>
      /\ \A op \in LinkOps : Dispatched(t, op) <= 1
      /\ WasRejected(t) =>
           /\ tasks[t].ret # "True"
           /\ tasks[t].outcome # "returned"
           /\ tasks[t].pc = "done" =>
                tasks[t].outcome = "raised" /\ tasks[t].err.type # "none"

\* the takeoff primitive of a takeoff invocation was rejected and the
\* invocation raised the link's error
C11_Witness ==
  \E t \in Tasks :
    /\ tasks[t].tool = "takeoff"
    /\ Len(tasks[t].calls) = 4
    /\ tasks[t].calls[4] = Rejected("takeoff")
    /\ tasks[t].outcome = "raised"
    /\ tasks[t].err.type = "LinkError"

\* the vehicle is armed: the link has carried out an arm
Armed ==
  \E t \in Tasks : \E k \in 1..Len(tasks[t].calls) : tasks[t].calls[k] = Completed("arm")

\* C12: takeoff(takeoff_altitude) sends set_takeoff_altitude(takeoff_altitude),
\* sends the takeoff primitive only after that has completed (never after it was
\* rejected), and returns True only after both completed; it can be invoked and
\* goes on to the takeoff primitive whether or not the vehicle is armed
C12_TakeoffSequence ==
  \A t \in Tasks :
    /\ tasks[t].pc = "idle" => ENABLED takeoff(t, 10)
    /\ tasks[t].tool = "takeoff" =>
         LET calls == tasks[t].calls IN
         /\ Len(calls) >= 1 /\ Len(calls) <= 4
         /\ calls[1] = Call("set_takeoff_altitude", tasks[t].args.takeoff_altitude)
         /\ Len(calls) >= 2 => calls[2].op = "set_takeoff_altitude" /\ calls[2].ev # "call"
         /\ Len(calls) >= 3 =>
              /\ calls[2] = Completed("set_takeoff_altitude")
              /\ calls[3].ev = "call" /\ calls[3].op = "takeoff"
         /\ Len(calls) = 4 => calls[4].op = "takeoff" /\ calls[4].ev # "call"
         /\ (tasks[t].pc = "set_takeoff_altitude" /\ tasks[t].reply.type = "ok") =>
              ENABLED takeoff_set_takeoff_altitude_done(t)
         /\ tasks[t].outcome = "returned" =>
              /\ tasks[t].ret = "True"
              /\ Len(calls) = 4
              /\ calls[4] = Completed("takeoff")

\* takeoff(5) returned True after both calls although no arm was ever carried out
C12_Witness ==
  \E t \in Tasks :
    /\ tasks[t].tool = "takeoff"
    /\ tasks[t].args.takeoff_altitude = 5
    /\ tasks[t].ret = "True"
    /\ Len(tasks[t].calls) = 4
    /\ ~Armed


\* C13: a move_to_relative that returned True has sent the link a relative-move
\* command carrying the lr, fb, altitude and yaw it was given
C13_MoveCommandIssued ==
  \A t \in Tasks :
    (tasks[t].tool = "move_to_relative" /\ tasks[t].ret = "True") =>
      \E k \in 1..Len(tasks[t].calls) :
        /\ tasks[t].calls[k].ev = "call"
        /\ tasks[t].calls[k].arg = << tasks[t].args.lr, tasks[t].args.fb,
                                      tasks[t].args.altitude, tasks[t].args.yaw >>

\* C14: a get_position that returned has queried the link for the position in
\* the frame chosen by relative and returned coordinates
C14_PositionReturned ==
  \A t \in Tasks :
    (tasks[t].tool = "get_position" /\ tasks[t].outcome = "returned") =>
      /\ tasks[t].ret # "None"
      /\ \E k \in 1..Len(tasks[t].calls) :
           /\ tasks[t].calls[k].ev = "call"
           /\ tasks[t].calls[k].arg = tasks[t].args.relative

NumericOptionals ==
  { "gimbal_pitch_deg", "gimbal_yaw_deg", "loiter_time_s", "camera_photo_interval_s",
    "acceptance_radius_m", "yaw_deg", "camera_photo_distance_m" }

\* the optional fields of the item are those of the point, and the unset
\* sentinel where the point has none
OptionalsKept(item, point) ==
  /\ \A f \in NumericOptionals :
       IF f \in DOMAIN point THEN item[f] = point[f]
                             ELSE item[f] = NaN /\ item[f] # 0
  /\ item.camera_action =
       IF "camera_action" \in DOMAIN point THEN point["camera_action"]
                                           ELSE "CameraAction.NONE"
  /\ item.vehicle_action =
       IF "vehicle_action" \in DOMAIN point THEN point["vehicle_action"]
                                            ELSE "VehicleAction.NONE"

\* C15: in every item built from an accepted point, and in every item of an
\* uploaded plan, an optional field the point lacks is the unset sentinel
\* (not-a-number, the NONE action), and one it carries has the value it carries
C15_OptionalsUnsetOrKept ==
  \A t \in Tasks :
    IsMission(t) =>
      /\ Len(tasks[t].mission_items) <= Len(PointsOf(t))
      /\ \A i \in 1..Len(tasks[t].mission_items) :
           OptionalsKept(tasks[t].mission_items[i], PointsOf(t)[i])
      /\ Len(tasks[t].calls) >= 3 =>
           /\ Len(tasks[t].calls[3].arg.mission_items) = Len(PointsOf(t))
           /\ \A i \in 1..Len(PointsOf(t)) :
                OptionalsKept(tasks[t].calls[3].arg.mission_items[i], PointsOf(t)[i])

\* a plan was uploaded with a point that carries gimbal_pitch_deg = 0 and a
\* camera action and has no yaw_deg, and with a point without optional fields
C15_Witness ==
  /\ IsMission(1)
  /\ Len(tasks[1].calls) >= 3
  /\ Len(PointsOf(1)) = 2
  /\ DOMAIN PointsOf(1)[1] = DOMAIN GoodPoint \cup {"gimbal_pitch_deg", "camera_action"}
  /\ DOMAIN PointsOf(1)[2] = DOMAIN GoodPoint
  /\ tasks[1].calls[3].arg.mission_items[1].gimbal_pitch_deg = 0
  /\ tasks[1].calls[3].arg.mission_items[1].camera_action = "CameraAction.TAKE_PHOTO"
  /\ tasks[1].calls[3].arg.mission_items[1].yaw_deg = NaN
  /\ tasks[1].calls[3].arg.mission_items[2].gimbal_pitch_deg = NaN


\* C16: the points are validated in input order and the first bad one decides:
\* the validation loop stops at the lowest-index point that breaks a rule, the
\* error raised is a range or missing-field error of that point, the points
\* before it were built into items, and no call goes to the link
C16_FirstViolationDecides ==
  \A t \in Tasks :
    (IsMission(t) /\ \E i \in 1..Len(PointsOf(t)) : ~ValidPoint(PointsOf(t)[i])) =>
      LET f == CHOOSE i \in 1..Len(PointsOf(t)) :
                 /\ ~ValidPoint(PointsOf(t)[i])
                 /\ \A j \in 1..(i - 1) : ValidPoint(PointsOf(t)[j])
      IN
      /\ RejectedBeforeAnyCall(t)
      /\ tasks[t].evaluated = f
      /\ Len(tasks[t].mission_items) = f - 1
      /\ \/ NamesOffendingValue(tasks[t].err, PointsOf(t)[f])
         \/ NamesMissingField(tasks[t].err, PointsOf(t)[f])

\* latitude 91, then latitude -91: rejected with the 91 of the first point
C16_Witness ==
  /\ IsMission(1)
  /\ Len(PointsOf(1)) = 2
  /\ LatitudeOutOfRange(PointsOf(1)[1])
  /\ LatitudeOutOfRange(PointsOf(1)[2])
  /\ PointsOf(1)[1]["latitude_deg"] = 91
  /\ PointsOf(1)[2]["latitude_deg"] = -91
  /\ RejectedBeforeAnyCall(1)
  /\ tasks[1].err.message[2] = 91
  /\ tasks[1].evaluated = 1

\* C17: with MAVLINK_ADDRESS not set (the address of the connect is empty) the
\* session is never yielded and no tool runs
C17_NoSessionWithoutAddress ==
  (link.status # "new" /\ link.system_address[2] = "") =>
    lifespan_pc # "yielded" /\ tasks[1].pc = "idle"

\* C18 as stated: the takeoff primitive of every takeoff invocation is issued
\* while the altitude configured on the link is the invocation's own
C18_TakeoffAtOwnAltitude ==
  \A t \in Tasks :
    (tasks[t].tool = "takeoff" /\ Len(tasks[t].calls) >= 3) =>
      tasks[t].calls[3].arg = tasks[t].args.takeoff_altitude

\* the other takeoff invocations whose set_takeoff_altitude the link has carried out
OtherAltitudeSetters(t) ==
  { u \in Tasks \ {t} :
      /\ tasks[u].tool = "takeoff"
      /\ Len(tasks[u].calls) >= 2
      /\ tasks[u].calls[2] = Completed("set_takeoff_altitude") }

\* C18 amended: the takeoff primitive of a takeoff invocation is issued while
\* the altitude configured on the link is its own takeoff_altitude or that of
\* another takeoff invocation whose set_takeoff_altitude was carried out
\* meanwhile; it is its own when there is no such other invocation
C18_TakeoffAtOwnOrConcurrentAltitude ==
  \A t \in Tasks :
    (tasks[t].tool = "takeoff" /\ Len(tasks[t].calls) >= 3) =>
      \/ tasks[t].calls[3].arg = tasks[t].args.takeoff_altitude
      \/ \E u \in OtherAltitudeSetters(t) :
           tasks[t].calls[3].arg = tasks[u].args.takeoff_altitude

\* two takeoffs with different altitudes have both issued the takeoff primitive,
\* one of them at the altitude of the other
C18_Witness ==
  \E t \in Tasks, u \in Tasks :
    /\ tasks[t].tool = "takeoff" /\ tasks[u].tool = "takeoff"
    /\ tasks[t].args.takeoff_altitude # tasks[u].args.takeoff_altitude
    /\ Len(tasks[t].calls) >= 3 /\ Len(tasks[u].calls) >= 3
    /\ tasks[t].calls[3].arg = tasks[u].args.takeoff_altitude


C20_EmptyMissionAccepted ==
  \A t \in Tasks :
    (IsMission(t) /\ PointsOf(t) = << >>) =>
      LET calls == tasks[t].calls IN
      /\ tasks[t].err.type \in {"none", "LinkError", "CancelledError"}
      /\ tasks[t].evaluated = 0
      /\ Len(calls) >= 1
      /\ calls[1] = Call("set_return_to_launch_after_mission", tasks[t].args.return_to_launch)
      /\ Len(calls) >= 3 => calls[3] = Call("upload_mission", MissionPlan(<< >>))
      /\ Len(calls) >= 5 => calls[5].op = "start_mission" /\ calls[5].ev = "call"
      /\ (Len(calls) = 6 /\ calls[6].ev = "completed" /\ tasks[t].pc = "done"
            /\ tasks[t].err.type = "none") => tasks[t].ret = "True"

\* the empty mission was uploaded and started, and True was returned
C20_Witness ==
  /\ IsMission(1)
  /\ PointsOf(1) = << >>
  /\ tasks[1].ret = "True"
  /\ Len(tasks[1].calls) = 6
  /\ tasks[1].calls[3].arg = MissionPlan(<< >>)
  /\ tasks[1].calls[6] = Completed("start_mission")

====
